---- MODULE Spec2Model ----
(***************************************************************************)
(* Model of internal/gt/vcs.go (govendor test harness): the import-redirect *)
(* HTTP handler with its routing table, the synchronous command runner,     *)
(* the asynchronous daemon supervisor (runAsync) and the construction and   *)
(* teardown of the HttpHandler.                                             *)
(*                                                                          *)
(* Strings are sequences of one-character strings, so that TrimPrefix,      *)
(* HasPrefix and Contains are computed as the Go library computes them.     *)
(***************************************************************************)
EXTENDS Integers, Sequences, FiniteSets, TLC

(***************************************************************************)
(* Bounds of the model.                                                     *)
(***************************************************************************)
\* number of handles Setup() may create in one run
MaxHandles == 2
\* length of the longest request path, its leading "/" not counted
MaxPathLen == 2

\* number of chunks of output the daemon writes
MaxOut == 2

(***************************************************************************)
(* Program constants.                                                       *)
(***************************************************************************)
\* for i := 0; i < 100; i++
MaxPolls == 100
\* done := make(chan struct{}, 3)
DoneCap == 3

(***************************************************************************)
(* Input alphabets.                                                         *)
(***************************************************************************)
\* the readiness marker " Ready ", written by the daemon in two chunks
Marker == <<" Rea", "dy ">>
\* the chunks the daemon writes to its stdout and stderr
OutChunks == {" Rea", "dy ", "x"}
\* values of the checkFor parameter of runAsync (<<>> is "")
CheckFors == {<<>>, Marker}
\* values of the vcsName parameter of NewHttpHandler
VcsNames == {"git", "hg"}
PathChars == {"/", "a", "b"}
\* values g.pkg takes: "a" is a strict prefix of "ab", "b" is unrelated
Pkgs == {<<"a">>, <<"a", "b">>, <<"b">>}
\* captured combined output of a synchronous command
Outputs == {"", "out"}
ExitCodes == {0, 1}
\* shapes of the output of `show --pretty=format:%H@%ai -s`
ShowShapes == {"hash@time", "nosep", "badtime"}

SeqsUpTo(S, n) == UNION {[1..k -> S] : k \in 0..n}
\* request paths, with and without the leading "/"
Paths == SeqsUpTo(PathChars, MaxPathLen)
            \cup {<<"/">> \o s : s \in SeqsUpTo(PathChars, MaxPathLen)}

(***************************************************************************)
(* strings.HasPrefix, strings.TrimPrefix                                    *)
(***************************************************************************)
HasPrefix(s, prefix) ==
    /\ Len(s) >= Len(prefix)
    /\ SubSeq(s, 1, Len(prefix)) = prefix

TrimPrefix(s, prefix) ==
    IF HasPrefix(s, prefix) THEN SubSeq(s, Len(prefix) + 1, Len(s)) ELSE s

\* strings.Contains
Contains(s, substr) ==
    \E k \in 0..(Len(s) - Len(substr)) : SubSeq(s, k + 1, k + Len(substr)) = substr

VARIABLES
    \* ---- test goroutine and test context (GopathTest)
    tpc,        \* position of the test goroutine
    cur,        \* the handle the test goroutine is working on (0: none)
    cleaners,   \* g.cleaners: the cleanup actions registered with onClean
    diag,       \* the verdict of the test and the message of its Fatalf or Skip
    failedCmd,  \* the synchronous command that exited non-zero: args, code, output
    hproc,      \* the harness process: "running", "crashed", "exit1"
    \* ---- routing table
    hpkg,       \* hpkg[i]: importPath of the i-th handle built by newer
    handles,    \* h.handles: package path -> handle
    returned,   \* handles Setup() has inserted and returned
    removed,    \* handles whose remove() has run
    \* ---- one HTTP request being served
    rpc,        \* "idle", "scan", "done"
    rp,         \* p, the cleaned request path
    raced,      \* the table was written while this request scanned it
    resp,       \* the response written
    \* ---- the supervised process (runAsync)
    checkFor,   \* the checkFor parameter
    proc,       \* cmd.Process: "none" (nil), "running", "exited"
    procState,  \* cmd.ProcessState: "nil", "exited"
    buf,        \* captured stdout (allocated only when checkFor # "")
    bufErr,     \* captured stderr (allocated only when checkFor # "")
    writing,    \* the buffer os/exec is appending to: "none", "buf", "bufErr"
    i,          \* the loop counter of the readiness polling
    sigInt,     \* cmd.Process.Signal(os.Interrupt) was called
    killSent,   \* cmd.Process.Kill() was called
    \* ---- the cleanup action registered by runAsync
    cpc,        \* position of the cleanup action
    wpc,        \* position of the goroutine waiting for the process
    done,       \* number of values in the channel done
    timer,      \* time.After(300ms): "none", "armed", "fired"
    sel,        \* the case the select took: "none", "timeout", "done"
    logs,       \* what Logf has logged
    procAtClean,\* the state of the process when the cleanup action began
    \* ---- construction and teardown of the HttpHandler
    vcsName,    \* the vcsName parameter of NewHttpHandler
    caller,     \* who called runAsync: "NewHttpHandler" or "test"
    listener,   \* h.l: "none", "open", "closed"
    spc,        \* the goroutine running http.Serve: "none", "serving", "returned"
    lookup,     \* result of exec.LookPath: "pending", "found", "absent"
    ports       \* number of free ports allocated by freePort

routeVars == <<hpkg, handles, returned, removed, rpc, rp, raced, resp>>
testVars == <<tpc, cur, cleaners, diag, failedCmd, hproc>>
procVars == <<checkFor, proc, procState, buf, bufErr, writing, i, sigInt, killSent>>
cleanVars == <<cpc, wpc, done, timer, sel, logs, procAtClean>>
lifeVars == <<vcsName, caller, listener, spc, lookup, ports>>
vars == <<testVars, routeVars, procVars, cleanVars, lifeVars>>

NoDiag == [verdict |-> "none", format |-> "", args |-> <<>>]
NoCmd == [args |-> <<>>, code |-> 0, out |-> ""]
NoResp == [status |-> 0, handle |-> 0, body |-> <<>>]

(***************************************************************************)
(* Test context (GopathTest embeds testing.TB).                             *)
(***************************************************************************)
\* Fatalf(format, args...): records the message and aborts the goroutine
Fatalf(format, args) ==
    /\ diag' = [verdict |-> "failed", format |-> format, args |-> args]
    /\ tpc' = "failed"

\* Skip(reason): marks the test skipped and aborts the goroutine
Skip(reason) ==
    /\ diag' = [verdict |-> "skipped", format |-> reason, args |-> <<>>]
    /\ tpc' = "skipped"

\* onClean(fn): multiple registrations accumulate
onClean(fn) == cleaners' = Append(cleaners, fn)

\* the cleanup action that runs next, and the ones left after it: the
\* actions run in a fixed order, the last registered first
Top(s) == s[Len(s)]
Pop(s) == SubSeq(s, 1, Len(s) - 1)

(***************************************************************************)
(* runner.run: one synchronous command.                                     *)
(***************************************************************************)
ExecPath == "git"

\* the subcommand run at each position of create() and Commit(), and the
\* position that follows it
RunArgs(pc) ==
    CASE pc = "create_init" -> <<"init">>
      [] pc = "create_name" -> <<"config", "user.name", "tests">>
      [] pc = "create_email" -> <<"config", "user.email", "tests@govendor.io">>
      [] pc = "commit_add" -> <<"add", "-A">>
      [] pc = "commit_commit" -> <<"commit", "-a", "-m", "msg">>
      [] pc = "commit_show" -> <<"show", "--pretty=format:%H@%ai", "-s">>

RunNext(pc) ==
    CASE pc = "create_init" -> "create_name"
      [] pc = "create_name" -> "create_email"
      [] pc = "create_email" -> "setup_onclean"
      [] pc = "commit_add" -> "commit_commit"
      [] pc = "commit_commit" -> "commit_show"
      [] pc = "commit_show" -> "commit_parse"

RunPcs == {"create_init", "create_name", "create_email",
           "commit_add", "commit_commit", "commit_show"}

\* the arguments run passes to Fatalf when the command fails
RunFatalArgs(args, out, err) ==
    <<[k |-> "execPath", v |-> <<ExecPath>>],
      [k |-> "args", v |-> args],
      [k |-> "err", v |-> <<err>>]>>

run ==
    /\ hproc = "running"
    /\ tpc \in RunPcs
    /\ \E code \in ExitCodes, out \in Outputs :
        IF code # 0
        THEN /\ failedCmd' = [args |-> RunArgs(tpc), code |-> code, out |-> out]
             /\ Fatalf("Failed to run %q %q: %v",
                       RunFatalArgs(RunArgs(tpc), out, "exit status 1"))
        ELSE /\ tpc' = RunNext(tpc)
             /\ UNCHANGED <<diag, failedCmd>>
    /\ UNCHANGED <<cur, cleaners, hproc, routeVars, procVars, cleanVars, lifeVars>>

(***************************************************************************)
(* HttpHandler.Setup                                                        *)
(***************************************************************************)
\* a write of the routing table overlaps the scan of a request in flight
MarkRace == raced' = (rpc = "scan")

\* vcs := h.newer(h): the handle takes the current g.pkg as its importPath
SetupNewer ==
    /\ hproc = "running"
    /\ tpc = "idle"
    /\ Len(hpkg) < MaxHandles
    /\ \E gpkg \in Pkgs : hpkg' = Append(hpkg, gpkg)
    /\ cur' = Len(hpkg) + 1
    /\ tpc' = "create_init"
    /\ UNCHANGED <<cleaners, diag, failedCmd, hproc>>
    /\ UNCHANGED <<handles, returned, removed, rpc, rp, raced, resp>>
    /\ UNCHANGED <<procVars, cleanVars, lifeVars>>

\* a Setup() that registers no teardown action for its handle
SetupOnCleanSkips ==
    /\ hproc = "running"
    /\ tpc = "setup_onclean"
    /\ tpc' = "setup_insert"
    /\ UNCHANGED <<cur, cleaners, diag, failedCmd, hproc, routeVars, procVars, cleanVars, lifeVars>>

\* h.g.onClean(vcs.remove)
SetupOnClean ==
    /\ hproc = "running"
    /\ tpc = "setup_onclean"
    /\ onClean([kind |-> "remove", h |-> cur])
    /\ tpc' = "setup_insert"
    /\ UNCHANGED <<cur, diag, failedCmd, hproc, routeVars, procVars, cleanVars, lifeVars>>

\* h.handles[k] = v
MapStore(m, k, v) == [x \in DOMAIN m \cup {k} |-> IF x = k THEN v ELSE m[x]]

\* a delete that leaves the entry in place
MapDeleteKeeps(m, k) == m

\* delete(h.handles, k)
MapDelete(m, k) == [x \in DOMAIN m \ {k} |-> m[x]]

\* h.handles[vcs.pkg()] = vcs; return vcs
SetupInsert ==
    /\ hproc = "running"
    /\ tpc = "setup_insert"
    /\ handles' = MapStore(handles, hpkg[cur], cur)
    /\ returned' = returned \cup {cur}
    /\ MarkRace
    /\ tpc' = "idle"
    /\ cur' = 0
    /\ UNCHANGED <<cleaners, diag, failedCmd, hproc>>
    /\ UNCHANGED <<hpkg, removed, rpc, rp, resp>>
    /\ UNCHANGED <<procVars, cleanVars, lifeVars>>

(***************************************************************************)
(* gitVcsHandle.remove                                                      *)
(***************************************************************************)
remove(h) ==
    /\ handles' = MapDelete(handles, hpkg[h])
    /\ removed' = removed \cup {h}
    /\ MarkRace
    /\ UNCHANGED <<hpkg, returned, rpc, rp, resp>>

\* the test calls remove() on a handle Setup() returned
CallRemove ==
    /\ hproc = "running"
    /\ tpc = "idle"
    /\ \E h \in returned : remove(h)
    /\ UNCHANGED <<testVars, procVars, cleanVars, lifeVars>>

(***************************************************************************)
(* gitVcsHandle.Commit                                                      *)
(***************************************************************************)
CallCommit ==
    /\ hproc = "running"
    /\ tpc = "idle"
    /\ \E h \in returned : cur' = h
    /\ tpc' = "commit_add"
    /\ UNCHANGED <<cleaners, diag, failedCmd, hproc, routeVars, procVars, cleanVars, lifeVars>>

\* the parse of "<hash>@<timestamp>": ss[1] panics (index out of range) when
\* the line has no "@", time.Parse fails on a malformed timestamp
CommitParse ==
    /\ hproc = "running"
    /\ tpc = "commit_parse"
    /\ \E shape \in ShowShapes :
        tpc' = IF shape = "hash@time" THEN "idle" ELSE "panicked"
    /\ cur' = 0
    /\ UNCHANGED <<cleaners, diag, failedCmd, hproc, routeVars, procVars, cleanVars, lifeVars>>

(***************************************************************************)
(* HttpHandler.ServeHTTP                                                    *)
(***************************************************************************)
Perms(S) == {f \in [1..Cardinality(S) -> S] : \A x \in S : \E n \in DOMAIN f : f[n] = x}

\* a scan that matches on equality of the paths instead of the prefix
ScanFromExact(m, order, n, p) ==
    IF \E j \in n..Len(order) : hpkg[m[order[j]]] = p
    THEN m[CHOOSE k \in DOMAIN m : hpkg[m[k]] = p]
    ELSE 0

\* for _, try := range h.handles { if HasPrefix(p, try.pkg()) { handle = try; break } }
\* over the keys in the order the map iteration yields them; 0 is nil
RECURSIVE ScanFrom(_, _, _, _)
ScanFrom(m, order, n, p) ==
    IF n > Len(order) THEN 0
    ELSE IF HasPrefix(p, hpkg[m[order[n]]]) THEN m[order[n]]
    ELSE ScanFrom(m, order, n + 1, p)

\* a request arrives: p := strings.TrimPrefix(r.URL.Path, "/")
ServeBegin ==
    /\ hproc = "running"
    /\ listener = "open"
    /\ spc = "serving"
    /\ rpc \in {"idle", "done"}
    /\ \E path \in Paths : rp' = TrimPrefix(path, <<"/">>)
    /\ rpc' = "scan"
    /\ raced' = FALSE
    /\ resp' = NoResp
    /\ UNCHANGED <<hpkg, handles, returned, removed>>
    /\ UNCHANGED <<testVars, procVars, cleanVars, lifeVars>>

\* h.httpAddr, h.vcsName, h.vcsAddr of the controller
HttpAddr == "127.0.0.1:8080"
VcsName == "git"
VcsAddr == "git://localhost:9418/"

\* a meta document built from the path of the request
ContentFromRequestPath(handle) ==
    <<HttpAddr, "/">> \o rp \o <<" ", VcsName, " ", VcsAddr>>
        \o rp \o <<"/", ".", "g", "i", "t">>

\* the content attribute of the meta tag:
\* h.httpAddr+"/"+handle.pkg(), h.vcsName, h.vcsAddr+handle.pkg()+"/.git"
Content(handle) ==
    <<HttpAddr, "/">> \o hpkg[handle] \o <<" ", VcsName, " ", VcsAddr>>
        \o hpkg[handle] \o <<"/", ".", "g", "i", "t">>

\* the response: http.Error(w, "repo not found", 404) when no handle matched
\* (0 is nil), else the meta document of the matched handle
Respond(handle) ==
    IF handle = 0
    THEN [status |-> 404, handle |-> 0, body |-> <<"repo not found">>]
    ELSE [status |-> 200, handle |-> handle, body |-> Content(handle)]

\* the scan of the table and the response.  Go randomises the iteration
\* order of a map.  A scan that overlapped a write of the table is a data
\* race: the runtime may abort the process ("concurrent map iteration and
\* map write"), or the scan may miss entries or see entries already deleted.
ServeScan ==
    /\ hproc = "running"
    /\ rpc = "scan"
    /\ IF ~raced
       THEN /\ \E order \in Perms(DOMAIN handles) :
                 resp' = Respond(ScanFrom(handles, order, 1, rp))
            /\ rpc' = "done"
            /\ hproc' = hproc
       ELSE \/ /\ hproc' = "crashed"
               /\ UNCHANGED <<rpc, resp>>
            \/ /\ \E h \in {0} \cup {x \in returned : HasPrefix(rp, hpkg[x])} :
                    resp' = Respond(h)
               /\ rpc' = "done"
               /\ hproc' = hproc
    /\ raced' = FALSE
    /\ UNCHANGED <<hpkg, handles, returned, removed, rp>>
    /\ UNCHANGED <<tpc, cur, cleaners, diag, failedCmd>>
    /\ UNCHANGED <<procVars, cleanVars, lifeVars>>

(***************************************************************************)
(* runner.runAsync                                                          *)
(***************************************************************************)
\* the arguments NewHttpHandler passes for the daemon
DaemonArgs == <<"daemon", "--listen=localhost", "--port", "--export-all",
                "--verbose", "--informative-errors", "--base-path", "cwd">>

\* where runAsync returns to
RaRet == IF caller = "NewHttpHandler" THEN "ctor_newer" ELSE "idle"

\* exec.Command, the allocation of the buffers, cmd.Start()
RaStart ==
    /\ hproc = "running"
    /\ tpc = "ra_start"
    /\ \E ok \in BOOLEAN :
        IF ok
        THEN /\ proc' = "running"
             /\ tpc' = "ra_onclean"
             /\ diag' = diag
        ELSE /\ Fatalf("Failed to start %q %q: %v",
                       <<[k |-> "execPath", v |-> <<ExecPath>>],
                         [k |-> "args", v |-> DaemonArgs]>>)
             /\ proc' = proc
    /\ UNCHANGED <<cur, cleaners, failedCmd, hproc, routeVars, cleanVars, lifeVars>>
    /\ UNCHANGED <<checkFor, procState, buf, bufErr, writing, i, sigInt, killSent>>

\* r.t.onClean(func() {...}); without a marker runAsync returns at once
RaOnClean ==
    /\ hproc = "running"
    /\ tpc = "ra_onclean"
    /\ onClean([kind |-> "daemon", h |-> 0])
    /\ tpc' = IF checkFor # <<>> THEN "ra_poll" ELSE RaRet
    /\ UNCHANGED <<cur, diag, failedCmd, hproc, routeVars, procVars, cleanVars, lifeVars>>

\* buf.String(), buf.Bytes(): the buffers are read without synchronisation;
\* a read that overlaps an append sees the buffer before or after it
Front(s) == SubSeq(s, 1, Len(s) - 1)
BufRead == IF writing = "buf" THEN {buf, Front(buf)} ELSE {buf}
BufErrRead == IF writing = "bufErr" THEN {bufErr, Front(bufErr)} ELSE {bufErr}

\* the arguments of the Fatalf of an unexpected stop
StopFatalArgs(b, e) ==
    <<[k |-> "execPath", v |-> <<ExecPath>>],
      [k |-> "args", v |-> DaemonArgs],
      [k |-> "buf", v |-> b],
      [k |-> "bufErr", v |-> e]>>

\* a polling loop that searches the captured stdout only
RaPollStdoutOnly ==
    /\ hproc = "running"
    /\ tpc = "ra_poll"
    /\ i < MaxPolls
    /\ \E b \in BufRead :
        IF Contains(b, checkFor)
        THEN /\ tpc' = RaRet
             /\ UNCHANGED <<diag, i>>
        ELSE /\ i' = i + 1
             /\ UNCHANGED <<diag, tpc>>
    /\ UNCHANGED <<cur, cleaners, failedCmd, hproc, routeVars, cleanVars, lifeVars>>
    /\ UNCHANGED <<checkFor, proc, procState, buf, bufErr, writing, sigInt, killSent>>

\* one iteration of the polling loop: the exit check, the two searches for
\* the marker, the sleep and i++
RaPoll ==
    /\ hproc = "running"
    /\ tpc = "ra_poll"
    /\ i < MaxPolls
    /\ \E b \in BufRead, e \in BufErrRead :
        IF procState # "nil"
        THEN /\ Fatalf("unexpected stop %q %q\n%s\n%s\n", StopFatalArgs(b, e))
             /\ i' = i
        ELSE IF Contains(b, checkFor) \/ Contains(e, checkFor)
        THEN /\ tpc' = RaRet
             /\ UNCHANGED <<diag, i>>
        ELSE /\ i' = i + 1
             /\ UNCHANGED <<diag, tpc>>
    /\ UNCHANGED <<cur, cleaners, failedCmd, hproc, routeVars, cleanVars, lifeVars>>
    /\ UNCHANGED <<checkFor, proc, procState, buf, bufErr, writing, sigInt, killSent>>

\* the arguments of the Fatalf after the last attempt
ExhaustedFatalArgs(e) ==
    <<[k |-> "checkFor", v |-> checkFor],
      [k |-> "execPath", v |-> <<ExecPath>>],
      [k |-> "args", v |-> DaemonArgs],
      [k |-> "bufErr", v |-> e]>>

\* the loop ended without a match
RaExhausted ==
    /\ hproc = "running"
    /\ tpc = "ra_poll"
    /\ i >= MaxPolls
    /\ \E e \in BufErrRead :
        Fatalf("failed to read expected output %q from %q %q\n%s\n", ExhaustedFatalArgs(e))
    /\ UNCHANGED <<cur, cleaners, failedCmd, hproc, routeVars, procVars, cleanVars, lifeVars>>

(***************************************************************************)
(* The supervised process.                                                  *)
(***************************************************************************)
\* the process writes a chunk and the goroutine of os/exec starts to append
\* it to the buffer of the stream
DaemonEmit ==
    /\ proc = "running"
    /\ checkFor # <<>>
    /\ writing = "none"
    /\ Len(buf) + Len(bufErr) < MaxOut
    /\ \E c \in OutChunks :
        \/ buf' = Append(buf, c) /\ bufErr' = bufErr /\ writing' = "buf"
        \/ bufErr' = Append(bufErr, c) /\ buf' = buf /\ writing' = "bufErr"
    /\ UNCHANGED <<checkFor, proc, procState, i, sigInt, killSent>>
    /\ UNCHANGED <<testVars, routeVars, cleanVars, lifeVars>>

\* the append to the buffer is complete
DaemonEmitEnd ==
    /\ writing # "none"
    /\ writing' = "none"
    /\ UNCHANGED <<checkFor, proc, procState, buf, bufErr, i, sigInt, killSent>>
    /\ UNCHANGED <<testVars, routeVars, cleanVars, lifeVars>>

\* the process exits: by itself, on the interrupt or on the kill
DaemonExit ==
    /\ proc = "running"
    /\ proc' = "exited"
    /\ UNCHANGED <<checkFor, procState, buf, bufErr, writing, i, sigInt, killSent>>
    /\ UNCHANGED <<testVars, routeVars, cleanVars, lifeVars>>

(***************************************************************************)
(* The cleanup action runAsync registers.                                   *)
(***************************************************************************)
\* a cleanup action that panics when Signal reports the process finished
CleanDaemonBeginStrict ==
    /\ hproc = "running"
    /\ tpc = "cleaning"
    /\ cleaners # <<>>
    /\ Top(cleaners).kind = "daemon"
    /\ cpc = "none"
    /\ sigInt' = TRUE
    /\ procAtClean' = proc
    /\ cpc' = IF proc = "exited" THEN "panicked" ELSE "spawn"
    /\ tpc' = IF proc = "exited" THEN "clean_panicked" ELSE tpc
    /\ UNCHANGED <<cur, cleaners, diag, failedCmd, hproc, routeVars, lifeVars>>
    /\ UNCHANGED <<checkFor, proc, procState, buf, bufErr, writing, i, killSent>>
    /\ UNCHANGED <<wpc, done, timer, sel, logs>>

\* if cmd.Process == nil { return }; cmd.Process.Signal(os.Interrupt)
\* (the error of Signal is dropped)
CleanDaemonBegin ==
    /\ hproc = "running"
    /\ tpc = "cleaning"
    /\ cleaners # <<>>
    /\ Top(cleaners).kind = "daemon"
    /\ cpc = "none"
    /\ IF proc = "none"
       THEN /\ cleaners' = Pop(cleaners)
            /\ UNCHANGED <<sigInt, cpc, procAtClean>>
       ELSE /\ sigInt' = TRUE
            /\ cpc' = "spawn"
            /\ procAtClean' = proc
            /\ cleaners' = cleaners
    /\ UNCHANGED <<tpc, cur, diag, failedCmd, hproc, routeVars, lifeVars>>
    /\ UNCHANGED <<checkFor, proc, procState, buf, bufErr, writing, i, killSent>>
    /\ UNCHANGED <<wpc, done, timer, sel, logs>>

\* done := make(chan struct{}, 3); go func() {...}(); the select arms time.After
CleanSpawn ==
    /\ hproc = "running"
    /\ cpc = "spawn"
    /\ wpc' = "wait"
    /\ done' = 0
    /\ timer' = "armed"
    /\ cpc' = "select"
    /\ UNCHANGED <<sel, logs, procAtClean>>
    /\ UNCHANGED <<testVars, routeVars, procVars, lifeVars>>

\* cmd.Process.Wait() returns once the process has exited
WaiterWait ==
    /\ hproc = "running"
    /\ wpc = "wait"
    /\ proc = "exited"
    /\ wpc' = "send"
    /\ UNCHANGED <<cpc, done, timer, sel, logs, procAtClean>>
    /\ UNCHANGED <<testVars, routeVars, procVars, lifeVars>>

\* a send on an unbuffered channel: it completes only in a rendezvous with
\* the receive of the select
WaiterSendUnbuffered ==
    /\ hproc = "running"
    /\ wpc = "send"
    /\ cpc = "select"
    /\ sel' = "done"
    /\ cpc' = "log_out"
    /\ wpc' = "sent"
    /\ UNCHANGED <<done, timer, logs, procAtClean>>
    /\ UNCHANGED <<testVars, routeVars, procVars, lifeVars>>

\* done <- struct{}{}
WaiterSend ==
    /\ hproc = "running"
    /\ wpc = "send"
    /\ done < DoneCap
    /\ done' = done + 1
    /\ wpc' = "sent"
    /\ UNCHANGED <<cpc, timer, sel, logs, procAtClean>>
    /\ UNCHANGED <<testVars, routeVars, procVars, lifeVars>>

\* the 300ms of time.After elapse
TimerFire ==
    /\ hproc = "running"
    /\ timer = "armed"
    /\ timer' = "fired"
    /\ UNCHANGED <<cpc, wpc, done, sel, logs, procAtClean>>
    /\ UNCHANGED <<testVars, routeVars, procVars, lifeVars>>

\* a timeout case that does not kill the process
CleanSelectTimeoutNoKill ==
    /\ hproc = "running"
    /\ cpc = "select"
    /\ timer = "fired"
    /\ sel' = "timeout"
    /\ cpc' = "log_out"
    /\ UNCHANGED <<wpc, done, timer, logs, procAtClean>>
    /\ UNCHANGED <<testVars, routeVars, procVars, lifeVars>>

\* case <-time.After(time.Millisecond * 300): cmd.Process.Kill()
CleanSelectTimeout ==
    /\ hproc = "running"
    /\ cpc = "select"
    /\ timer = "fired"
    /\ killSent' = TRUE
    /\ sel' = "timeout"
    /\ cpc' = "log_out"
    /\ UNCHANGED <<wpc, done, timer, logs, procAtClean>>
    /\ UNCHANGED <<checkFor, proc, procState, buf, bufErr, writing, i, sigInt>>
    /\ UNCHANGED <<testVars, routeVars, lifeVars>>

\* case <-done:
CleanSelectDone ==
    /\ hproc = "running"
    /\ cpc = "select"
    /\ done > 0
    /\ done' = done - 1
    /\ sel' = "done"
    /\ cpc' = "log_out"
    /\ UNCHANGED <<wpc, timer, logs, procAtClean>>
    /\ UNCHANGED <<testVars, routeVars, procVars, lifeVars>>

\* r.t.Logf("%q StdOut: %s\n", cmd.Path, buf.Bytes()): buf is a nil
\* *bytes.Buffer when no marker was given, and buf.Bytes() panics
CleanLogOut ==
    /\ hproc = "running"
    /\ cpc = "log_out"
    /\ IF checkFor = <<>>
       THEN /\ cpc' = "panicked"
            /\ tpc' = "clean_panicked"
            /\ logs' = logs
       ELSE /\ \E b \in BufRead : logs' = Append(logs, [k |-> "StdOut", v |-> b])
            /\ cpc' = "log_err"
            /\ tpc' = tpc
    /\ UNCHANGED <<wpc, done, timer, sel, procAtClean>>
    /\ UNCHANGED <<cur, cleaners, diag, failedCmd, hproc, routeVars, procVars, lifeVars>>

\* r.t.Logf("%q StdErr: %s\n", cmd.Path, bufErr.Bytes()); the action returns
CleanLogErr ==
    /\ hproc = "running"
    /\ cpc = "log_err"
    /\ \E e \in BufErrRead : logs' = Append(logs, [k |-> "StdErr", v |-> e])
    /\ cpc' = "returned"
    /\ cleaners' = Pop(cleaners)
    /\ UNCHANGED <<wpc, done, timer, sel, procAtClean>>
    /\ UNCHANGED <<tpc, cur, diag, failedCmd, hproc, routeVars, procVars, lifeVars>>

(***************************************************************************)
(* NewHttpHandler, runner.freePort, HttpHandler.Close                       *)
(***************************************************************************)
\* l, err := net.Listen("tcp", "localhost:0"); if err != nil { return nil }
CtorListen ==
    /\ hproc = "running"
    /\ tpc = "ctor_listen"
    /\ \E ok \in BOOLEAN :
        IF ok
        THEN listener' = "open" /\ tpc' = "ctor_serve"
        ELSE listener' = listener /\ tpc' = "nil_returned"
    /\ UNCHANGED <<vcsName, caller, spc, lookup, ports>>
    /\ UNCHANGED <<cur, cleaners, diag, failedCmd, hproc, routeVars, procVars, cleanVars>>

\* go func() { err = http.Serve(l, h) ... }()
CtorServe ==
    /\ hproc = "running"
    /\ tpc = "ctor_serve"
    /\ spc' = "serving"
    /\ tpc' = "ctor_lookpath"
    /\ UNCHANGED <<vcsName, caller, listener, lookup, ports>>
    /\ UNCHANGED <<cur, cleaners, diag, failedCmd, hproc, routeVars, procVars, cleanVars>>

\* a construction that goes on when the executable is absent
CtorLookPathNoSkip ==
    /\ hproc = "running"
    /\ tpc = "ctor_lookpath"
    /\ \E found \in BOOLEAN : lookup' = IF found THEN "found" ELSE "absent"
    /\ tpc' = "ctor_switch"
    /\ UNCHANGED <<vcsName, caller, listener, spc, ports>>
    /\ UNCHANGED <<cur, cleaners, diag, failedCmd, hproc, routeVars, procVars, cleanVars>>

\* execPath, _ := exec.LookPath(vcsName)
\* if len(execPath) == 0 { g.Skip("unsupported vcs") }
CtorLookPath ==
    /\ hproc = "running"
    /\ tpc = "ctor_lookpath"
    /\ \E found \in BOOLEAN :
        IF found
        THEN lookup' = "found" /\ tpc' = "ctor_switch" /\ diag' = diag
        ELSE lookup' = "absent" /\ Skip("unsupported vcs")
    /\ UNCHANGED <<vcsName, caller, listener, spc, ports>>
    /\ UNCHANGED <<cur, cleaners, failedCmd, hproc, routeVars, procVars, cleanVars>>

\* switch vcsName { default: panic("unknown vcs type"); case "git": ... }
CtorSwitch ==
    /\ hproc = "running"
    /\ tpc = "ctor_switch"
    /\ tpc' = IF vcsName = "git" THEN "ctor_freeport" ELSE "panicked"
    /\ UNCHANGED <<cur, cleaners, diag, failedCmd, hproc, routeVars, procVars, cleanVars, lifeVars>>

\* port := h.freePort(); then h.runAsync(" Ready ", "daemon", ...)
freePort ==
    /\ hproc = "running"
    /\ tpc = "ctor_freeport"
    /\ \E ok \in BOOLEAN :
        IF ok
        THEN /\ ports' = ports + 1
             /\ tpc' = "ra_start"
             /\ diag' = diag
        ELSE /\ Fatalf("Failed to find free port %v", <<[k |-> "err", v |-> <<"err">>]>>)
             /\ ports' = ports
    /\ UNCHANGED <<vcsName, caller, listener, spc, lookup>>
    /\ UNCHANGED <<cur, cleaners, failedCmd, hproc, routeVars, procVars, cleanVars>>

\* h.newer = func(...) {...}; return h
CtorNewer ==
    /\ hproc = "running"
    /\ tpc = "ctor_newer"
    /\ tpc' = "idle"
    /\ UNCHANGED <<cur, cleaners, diag, failedCmd, hproc, routeVars, procVars, cleanVars, lifeVars>>

\* Close(): return h.l.Close()
Close ==
    /\ hproc = "running"
    /\ tpc = "idle"
    /\ listener = "open"
    /\ listener' = "closed"
    /\ UNCHANGED <<vcsName, caller, spc, lookup, ports>>
    /\ UNCHANGED <<testVars, routeVars, procVars, cleanVars>>

\* http.Serve returns the error of Accept on the closed listener
ServeReturn ==
    /\ hproc = "running"
    /\ spc = "serving"
    /\ listener = "closed"
    /\ spc' = "returned"
    /\ UNCHANGED <<vcsName, caller, listener, lookup, ports>>
    /\ UNCHANGED <<testVars, routeVars, procVars, cleanVars>>

\* if err != nil { fmt.Printf("Error serving HTTP server %v\n", err); os.Exit(1) }
\* (http.Serve always returns a non-nil error)
ServeExit ==
    /\ hproc = "running"
    /\ spc = "returned"
    /\ hproc' = "exit1"
    /\ UNCHANGED <<tpc, cur, cleaners, diag, failedCmd>>
    /\ UNCHANGED <<routeVars, procVars, cleanVars, lifeVars>>

(***************************************************************************)
(* GopathTest.Clean: runs the registered cleanup actions.                   *)
(***************************************************************************)
CleanBegin ==
    /\ hproc = "running"
    /\ tpc \in {"idle", "failed", "panicked", "skipped", "nil_returned"}
    /\ tpc' = "cleaning"
    /\ UNCHANGED <<cur, cleaners, diag, failedCmd, hproc, routeVars>>
    /\ UNCHANGED <<procVars, cleanVars, lifeVars>>

CleanRemove ==
    /\ hproc = "running"
    /\ tpc = "cleaning"
    /\ cleaners # <<>>
    /\ Top(cleaners).kind = "remove"
    /\ remove(Top(cleaners).h)
    /\ cleaners' = Pop(cleaners)
    /\ UNCHANGED <<tpc, cur, diag, failedCmd, hproc>>
    /\ UNCHANGED <<procVars, cleanVars, lifeVars>>

CleanEnd ==
    /\ hproc = "running"
    /\ tpc = "cleaning"
    /\ cleaners = <<>>
    /\ tpc' = "cleaned"
    /\ UNCHANGED <<cur, cleaners, diag, failedCmd, hproc, routeVars>>
    /\ UNCHANGED <<procVars, cleanVars, lifeVars>>

(***************************************************************************)
(* The routing specification: a controller that NewHttpHandler returned,    *)
(* its routing table empty, serving requests while the test creates and     *)
(* removes handles and while the cleanup runs the remove actions.  The      *)
(* cleanup action of the daemon, which runs after them and does not touch   *)
(* the routing table, is followed in the supervisor and lifecycle           *)
(* specifications.                                                          *)
(***************************************************************************)
\* the state NewHttpHandler(g, "git") leaves when it returns h: the listener
\* open and served, the daemon running with its marker read from stderr, its
\* cleanup action registered, the routing table empty
InitRoute ==
    /\ tpc = "idle"
    /\ cur = 0
    /\ cleaners = <<[kind |-> "daemon", h |-> 0]>>
    /\ diag = NoDiag
    /\ failedCmd = NoCmd
    /\ hproc = "running"
    /\ hpkg = <<>>
    /\ handles = <<>>
    /\ returned = {}
    /\ removed = {}
    /\ rpc = "idle"
    /\ rp = <<>>
    /\ raced = FALSE
    /\ resp = NoResp
    /\ checkFor = Marker
    /\ proc = "running"
    /\ procState = "nil"
    /\ buf = <<>>
    /\ bufErr = Marker
    /\ writing = "none"
    /\ i = 0
    /\ sigInt = FALSE
    /\ killSent = FALSE
    /\ cpc = "none"
    /\ wpc = "none"
    /\ done = 0
    /\ timer = "none"
    /\ sel = "none"
    /\ logs = <<>>
    /\ procAtClean = "none"
    /\ vcsName = "git"
    /\ caller = "NewHttpHandler"
    /\ listener = "open"
    /\ spc = "serving"
    /\ lookup = "found"
    /\ ports = 1

\* the steps of the cleanup action of the daemon and of its goroutines
CleanDaemon ==
    \/ CleanDaemonBegin
    \/ CleanSpawn
    \/ WaiterWait
    \/ WaiterSend
    \/ TimerFire
    \/ CleanSelectTimeout
    \/ CleanSelectDone
    \/ CleanLogOut
    \/ CleanLogErr

NextRoute ==
    \/ SetupNewer
    \/ run
    \/ SetupOnClean
    \/ SetupInsert
    \/ CallRemove
    \/ ServeBegin
    \/ ServeScan
    \/ CleanBegin
    \/ CleanRemove

SpecRoute == InitRoute /\ [][NextRoute]_vars

(***************************************************************************)
(* The command specification: create() and Commit() on the handles of a     *)
(* controller, up to the first failure.                                     *)
(***************************************************************************)
NextRun ==
    \/ SetupNewer
    \/ run
    \/ SetupOnClean
    \/ SetupInsert
    \/ CallCommit
    \/ CommitParse

SpecRun == InitRoute /\ [][NextRun]_vars

(***************************************************************************)
(* The supervisor specification: one call of runAsync by a test, with or    *)
(* without a readiness marker, and the cleanup of the test context.         *)
(***************************************************************************)
InitIdle ==
    /\ cur = 0
    /\ cleaners = <<>>
    /\ diag = NoDiag
    /\ failedCmd = NoCmd
    /\ hproc = "running"
    /\ hpkg = <<>>
    /\ handles = <<>>
    /\ returned = {}
    /\ removed = {}
    /\ rpc = "idle"
    /\ rp = <<>>
    /\ raced = FALSE
    /\ resp = NoResp
    /\ proc = "none"
    /\ procState = "nil"
    /\ buf = <<>>
    /\ bufErr = <<>>
    /\ writing = "none"
    /\ i = 0
    /\ sigInt = FALSE
    /\ killSent = FALSE
    /\ cpc = "none"
    /\ wpc = "none"
    /\ done = 0
    /\ timer = "none"
    /\ sel = "none"
    /\ logs = <<>>
    /\ procAtClean = "none"
    /\ listener = "none"
    /\ spc = "none"
    /\ lookup = "pending"
    /\ ports = 0

InitAsync ==
    /\ InitIdle
    /\ tpc = "ra_start"
    /\ checkFor \in CheckFors
    /\ caller = "test"
    /\ vcsName = "git"

NextAsync ==
    \/ RaStart
    \/ RaOnClean
    \/ RaPoll
    \/ RaExhausted
    \/ DaemonEmit
    \/ DaemonEmitEnd
    \/ DaemonExit
    \/ CleanBegin
    \/ CleanDaemon
    \/ CleanEnd

SpecAsync == InitAsync /\ [][NextAsync]_vars

\* the goroutines of the harness are scheduled, sleeps and timers end
HarnessSteps ==
    \/ RaStart
    \/ RaOnClean
    \/ RaPoll
    \/ RaExhausted
    \/ CleanDaemon

FairSpecAsync == SpecAsync /\ WF_vars(HarnessSteps)

(***************************************************************************)
(* The lifecycle specification: NewHttpHandler, Close and the cleanup.      *)
(***************************************************************************)
InitLife ==
    /\ InitIdle
    /\ tpc = "ctor_listen"
    /\ checkFor = Marker
    /\ caller = "NewHttpHandler"
    /\ vcsName \in VcsNames

NextLife ==
    \/ CtorListen
    \/ CtorServe
    \/ CtorLookPath
    \/ CtorSwitch
    \/ freePort
    \/ RaStart
    \/ RaOnClean
    \/ RaPoll
    \/ RaExhausted
    \/ CtorNewer
    \/ DaemonEmit
    \/ DaemonEmitEnd
    \/ DaemonExit
    \/ Close
    \/ ServeReturn
    \/ ServeExit
    \/ CleanBegin
    \/ CleanDaemon
    \/ CleanEnd

SpecLife == InitLife /\ [][NextLife]_vars

(***************************************************************************)
(* Routing properties.                                                      *)
(***************************************************************************)
\* a request completes its scan of a table no write overlapped
Served == rpc = "scan" /\ ~raced /\ rpc' = "done"

\* the registered handles: the values of the routing table
Registered == {handles[k] : k \in DOMAIN handles}

\* some registered handle's package path is a prefix of the path p
SomePrefix(p) == \E h \in Registered : HasPrefix(p, hpkg[h])

\* C1 (as stated): a request whose cleaned path equals the package path of
\* a registered handle H is answered from H, never from another registered
\* handle, also when another registered handle's path is a strict prefix.
C1_ExactPathRoutesToOwnHandle ==
    [][Served =>
         \A h \in Registered : hpkg[h] = rp => resp'.handle = h]_vars

\* C2: once a handle's remove() has run, no later request is answered from
\* it, and a request its former package path is a prefix of is answered 404
\* unless another registered handle's path is a prefix of the request.
C2_NoStaleRouting ==
    [][Served =>
         /\ resp'.handle \notin removed
         /\ \A h \in removed :
               (HasPrefix(rp, hpkg[h]) /\ ~SomePrefix(rp)) => resp'.status = 404]_vars

\* C2 witness: a request under the path of a removed handle was answered 404
C2_Witness ==
    /\ rpc = "done"
    /\ resp.status = 404
    /\ \E h \in removed : HasPrefix(rp, hpkg[h]) /\ h \notin Registered

\* C3: a request is answered 404 "repo not found" exactly when no
\* registered handle's package path is a prefix of its cleaned path, and is
\* answered 200 otherwise.
C3_NotFoundIffNoPrefix ==
    [][Served =>
         IF SomePrefix(rp)
         THEN resp'.status = 200
         ELSE resp'.status = 404 /\ resp'.body = <<"repo not found">>]_vars

\* C3 witness: handles are registered, none is a prefix of the request, and
\* the answer was 404
C3_Witness ==
    /\ rpc = "done"
    /\ Registered # {}
    /\ rp # <<>>
    /\ ~SomePrefix(rp)
    /\ resp.status = 404

(***************************************************************************)
(* Supervisor properties.                                                   *)
(***************************************************************************)
\* the marker is in one of the captured buffers
MarkerSeen == Contains(buf, checkFor) \/ Contains(bufErr, checkFor)

\* the marker is in one of the captured buffers, its append complete
MarkerWritten ==
    \/ Contains(IF writing = "buf" THEN SubSeq(buf, 1, Len(buf) - 1) ELSE buf, checkFor)
    \/ Contains(IF writing = "bufErr" THEN SubSeq(bufErr, 1, Len(bufErr) - 1) ELSE bufErr,
                checkFor)

\* runAsync has ended: it returned or it failed
RaEnded == tpc \notin {"ra_start", "ra_onclean", "ra_poll"}

\* the diagnostic has an argument built from the expression named k
HasArg(k) == \E a \in DOMAIN diag.args : diag.args[a].k = k

\* C4: with a marker, runAsync ends within its 100 polls; it leaves the loop
\* with success only at a poll that finds the marker in stdout or stderr,
\* every one of the 100 polls that finds it returns, so that a marker written
\* before the last poll makes it succeed, and after 100 polls without a match
\* it ends in the Fatalf.
C4_ReadinessPolling ==
    /\ [](i <= MaxPolls)
    /\ [][(tpc = "ra_poll" /\ checkFor # <<>>) =>
            /\ (i < MaxPolls /\ MarkerWritten) =>
                  (i' = i /\ (tpc' # tpc => tpc' = RaRet /\ diag' = NoDiag))
            /\ (i < MaxPolls /\ tpc' # tpc) =>
                  (MarkerSeen /\ tpc' = RaRet /\ diag' = NoDiag)
            /\ (i < MaxPolls /\ ~MarkerSeen) => tpc' = tpc
            /\ (i = MaxPolls /\ tpc' # tpc) =>
                  (tpc' = "failed" /\ diag'.verdict = "failed")]_vars
    /\ []((checkFor # <<>> /\ RaEnded /\ diag.verdict = "none") => MarkerSeen)
    /\ <>RaEnded

\* C4 witness: the marker came after a delay, on stderr, and runAsync returned
C4_Witness ==
    /\ checkFor # <<>>
    /\ tpc = "idle"
    /\ diag.verdict = "none"
    /\ i > 0
    /\ Contains(bufErr, checkFor)
    /\ ~Contains(buf, checkFor)

\* C5 (as stated): the Fatalf after the last attempt reports both captured
\* buffers, stdout and stderr.
C5_ExhaustedReportsBothBuffers ==
    (diag.verdict = "failed" /\ HasArg("checkFor")) =>
        (HasArg("buf") /\ HasArg("bufErr"))

\* C6 (as stated): the kill is issued if and only if the timeout has fired
\* before the exit is observed, that is, when the select is decided the
\* process is killed exactly if the timer had fired by then.
C6_KillIffTimeoutFiredFirst ==
    [][(cpc = "select" /\ cpc' # "select") => (killSent' <=> timer = "fired")]_vars

\* C6 (amended): the cleanup action interrupts first; it kills exactly when
\* the select takes the timeout case, which needs the timer fired, while the
\* done case needs the exit; with both ready either case may be taken; when
\* the action has returned the process has exited or was sent the kill;
\* nothing is logged before the select is decided.
C6_InterruptThenKillOnTimeout ==
    /\ (cpc # "none" \/ wpc # "none" \/ timer # "none") => sigInt
    /\ killSent <=> sel = "timeout"
    /\ sel = "timeout" => timer = "fired"
    /\ sel = "done" => proc = "exited"
    /\ cpc \in {"log_out", "log_err", "returned"} <=> sel # "none" /\ cpc # "panicked"
    /\ cpc = "returned" => (proc = "exited" \/ killSent)
    /\ logs # <<>> => sel # "none"
    /\ cpc = "returned" => Len(logs) = 2

\* C6 witness: the timeout won, the process was killed while still running,
\* and the action returned with both buffers logged
C6_Witness ==
    /\ cpc = "returned"
    /\ killSent
    /\ procAtClean = "running"
    /\ Len(logs) = 2

\* the daemon had exited when its cleanup action began
AlreadyExited == procAtClean = "exited" /\ checkFor # <<>>

\* C7: when the daemon had exited before its cleanup action ran, the action
\* does not panic and the harness lives; the exit notification is there or on
\* its way, so the action can finish without the kill; it goes on to log the
\* captured stdout and stderr.
C7_CleanupOfExitedDaemon ==
    /\ [](AlreadyExited =>
            /\ cpc # "panicked"
            /\ tpc # "clean_panicked"
            /\ hproc = "running"
            /\ sigInt
            /\ cpc = "select" => (done > 0 \/ wpc \in {"wait", "send"})
            /\ cpc = "returned" =>
                 /\ Len(logs) = 2
                 /\ logs[1].k = "StdOut" /\ HasPrefix(buf, logs[1].v)
                 /\ logs[2].k = "StdErr" /\ HasPrefix(bufErr, logs[2].v))
    /\ (AlreadyExited ~> cpc = "returned")

\* C7 witness: the daemon had exited, the action returned without a kill
C7_Witness ==
    /\ AlreadyExited
    /\ cpc = "returned"
    /\ ~killSent
    /\ Len(logs) = 2

C9_AbsentBackendSkips ==
    lookup = "absent" =>
        /\ diag.verdict = "skipped"
        /\ tpc \in {"skipped", "cleaning", "cleaned"}
        /\ ports = 0
        /\ proc = "none"
        /\ cleaners = <<>>
        /\ cpc = "none"

\* C9 witness: the executable was absent and the test was skipped
C9_Witness ==
    /\ lookup = "absent"
    /\ diag.verdict = "skipped"
    /\ tpc = "cleaned"

(***************************************************************************)
(* Command properties.                                                      *)
(***************************************************************************)
\* C10 (as stated): a command that exits non-zero is a fatal failure whose
\* diagnostic carries the command, its arguments and the captured output,
\* and the caller does not go on to its next subcommand.
C10_FailedCommandIsFatalWithOutput ==
    failedCmd.code # 0 =>
        /\ tpc = "failed"
        /\ diag.verdict = "failed"
        /\ \E a \in DOMAIN diag.args :
              diag.args[a].k = "execPath" /\ diag.args[a].v = <<ExecPath>>
        /\ \E a \in DOMAIN diag.args :
              diag.args[a].k = "args" /\ diag.args[a].v = failedCmd.args
        /\ \E a \in DOMAIN diag.args :
              diag.args[a].k = "out" /\ diag.args[a].v = <<failedCmd.out>>

(***************************************************************************)
(* Concurrency of the routing table, the registration set.                  *)
(***************************************************************************)
\* C11 (as stated): no scan of the routing table by a request overlaps an
\* insertion by Setup() or a deletion by remove(): the table is never
\* written while a request is scanning it.
C11_NoUnguardedOverlap == ~raced

\* the meta document the claim expects for the handle h
ExpectedContent(h) ==
    <<HttpAddr, "/">> \o hpkg[h] \o <<" ", VcsName, " ", VcsAddr>> \o hpkg[h]
        \o <<"/", ".", "g", "i", "t">>

\* C12: the table is read on every request: Setup() makes its handle the
\* entry of its package path, the next request under a registered path is
\* answered 200 from a handle registered at that time whose path is a prefix
\* of the request, and the document is "<httpAddr>/<pkg> <vcsName>
\* <vcsAddr><pkg>/.git" with the package path of the matched handle.
C12_CurrentSetAndMetaDocument ==
    [][/\ (tpc = "setup_insert" /\ tpc' = "idle") =>
             (hpkg[cur] \in DOMAIN handles' /\ handles'[hpkg[cur]] = cur)
       /\ Served =>
             /\ SomePrefix(rp) =>
                  /\ resp'.status = 200
                  /\ resp'.handle \in Registered
                  /\ HasPrefix(rp, hpkg[resp'.handle])
             /\ resp'.status = 200 => resp'.body = ExpectedContent(resp'.handle)]_vars

\* C12 witness: a request longer than the package path of the handle that
\* Setup() inserted was answered 200 with the document of that handle
C12_Witness ==
    /\ rpc = "done"
    /\ resp.status = 200
    /\ resp.handle \in Registered
    /\ Len(rp) > Len(hpkg[resp.handle])
    /\ resp.body = ExpectedContent(resp.handle)

(***************************************************************************)
(* Supervisor properties: premature exit, the captured buffers, the modes   *)
(* of start.                                                                *)
(***************************************************************************)
\* C13 (as stated): when the process has exited and the marker is in
\* neither buffer, the next iteration of the polling loop does not sleep and
\* count on: it ends runAsync in the Fatalf of the unexpected stop, whose
\* diagnostic carries both captured buffers.
C13_ExitBeforeMarkerFailsAtNextPoll ==
    [][(tpc = "ra_poll" /\ i < MaxPolls /\ proc = "exited" /\ ~MarkerSeen
            /\ (i' # i \/ tpc' # tpc)) =>
         /\ i' = i
         /\ tpc' = "failed"
         /\ diag'.verdict = "failed"
         /\ \E a \in DOMAIN diag'.args : diag'.args[a].k = "buf"
         /\ \E a \in DOMAIN diag'.args : diag'.args[a].k = "bufErr"]_vars

\* C14 (as stated): no read of a captured buffer overlaps an append to it:
\* neither the two searches of a poll, nor the read for the diagnostic after
\* the last poll, nor the two reads of the cleanup log.
C14_BufferReadsNeverOverlapWrites ==
    [][/\ (tpc = "ra_poll" /\ i' # i) => writing = "none"
       /\ (tpc = "ra_poll" /\ tpc' # tpc) => writing # "buf"
       /\ (tpc = "ra_poll" /\ i = MaxPolls /\ tpc' # tpc) => writing # "bufErr"
       /\ (cpc = "log_out" /\ cpc' = "log_err") => writing # "buf"
       /\ (cpc = "log_err" /\ cpc' = "returned") => writing # "bufErr"]_vars

\* C15 (as stated): the cleanup action never panics, whatever the marker
\* runAsync was called with, the empty marker included.
C15_CleanupNeverPanics == cpc # "panicked" /\ tpc # "clean_panicked"

(***************************************************************************)
(* Lifecycle properties: the listener.                                      *)
(***************************************************************************)
\* C16 (as stated): once the cleanup sequence of the test context has run,
\* a listener that was acquired is closed, whatever the outcome of the
\* construction: ready, skipped or failed.
C16_ListenerClosedByTeardown ==
    (tpc = "cleaned" /\ listener # "none") => listener = "closed"

\* net.Listen failed in NewHttpHandler
ListenFailed == listener = "none" /\ tpc # "ctor_listen"

\* C18 (as stated): when the listener cannot be acquired the test is
\* skipped through Skip, without a Fatalf, and neither the serving loop nor
\* the daemon is started and no cleanup action is registered.
C18_ListenFailureSignalsSkip ==
    ListenFailed =>
        /\ diag.verdict = "skipped"
        /\ spc = "none"
        /\ proc = "none"
        /\ ports = 0
        /\ cleaners = <<>>

(***************************************************************************)
(* Registration properties.                                                 *)
(***************************************************************************)
\* the handles whose remove() is a registered cleanup action still to run
RemovePending == {cleaners[n].h : n \in {m \in DOMAIN cleaners : cleaners[m].kind = "remove"}}

\* C17: Setup() creates, registers the teardown, then inserts: an entry
\* enters the table only at the insertion step of Setup(), for the handle
\* whose remove() is already registered; the handle being created, or whose
\* creation failed, is not in the table; every handle in the table has its
\* remove() pending; and once the registered remove() actions have all run
\* the table is empty.
C17_CreateRegisterInsert ==
    /\ [][\A h \in Registered' \ Registered :
              /\ tpc = "setup_insert"
              /\ h = cur
              /\ h \in RemovePending]_vars
    /\ [](cur # 0 => cur \notin Registered)
    /\ [](failedCmd.code # 0 => (tpc # "idle" /\ cur \notin returned))
    /\ [](Registered \subseteq RemovePending)
    /\ []((tpc = "cleaning" /\ RemovePending = {}) => handles = <<>>)

\* C17 witness: handles were created and inserted, the cleanup ran every
\* remove(), and the table is empty
C17_Witness ==
    /\ tpc = "cleaning"
    /\ RemovePending = {}
    /\ returned # {}
    /\ removed = returned
    /\ handles = <<>>

\* C19 (as stated): every handle Setup() returned whose remove() has not
\* run is the entry of the routing table for its package path.
C19_ReturnedHandleStaysRegistered ==
    \A h \in returned \ removed :
        hpkg[h] \in DOMAIN handles /\ handles[hpkg[h]] = h

(***************************************************************************)
(* Termination of the cleanup action of the daemon.                         *)
(***************************************************************************)
\* C20: the cleanup action of a daemon started with its marker, once past
\* the interrupt, always reaches its return, whether or not the process ever
\* exits; the goroutine it spawned never finds the channel done full, and
\* once at its send it always completes it, also when the select took the
\* timeout and nobody receives.
C20_CleanupTerminatesWaiterNotBlocked ==
    /\ ((cpc = "spawn" /\ checkFor # <<>>) ~> cpc = "returned")
    /\ [](done <= 1 /\ (wpc = "send" => done < DoneCap))
    /\ (wpc = "send" ~> wpc = "sent")

\* C20 witness: the select took the timeout, the action returned, and the
\* goroutine then completed its send into the channel nobody reads
C20_Witness ==
    /\ checkFor # <<>>
    /\ cpc = "returned"
    /\ sel = "timeout"
    /\ wpc = "sent"
    /\ done = 1

====
